---------------------------- MODULE Spec2Model ----------------------------
(***************************************************************************)
(* A model of olclient/openlibrary.py: the OpenLibrary REST client, its    *)
(* backoff-wrapped network calls and its response marshalling.             *)
(*                                                                         *)
(* Python text values on which the code does character work (rstrip,       *)
(* lower, strip, split, re.search) are sequences of one-character strings. *)
(* Optional Python values are tagged records: None is [t |-> "None"], a    *)
(* text value s is [t |-> "str", v |-> s].                                 *)
(***************************************************************************)
EXTENDS Integers, Sequences, FiniteSets, TLC

VARIABLES
    base_url,      \* self.base_url
    cookies,       \* self.session.cookies holds a cookie
    username,      \* self.username (None until credentials are given)
    op,            \* the public method being executed, "idle" when none
    pc,            \* position inside that method
    args,          \* the arguments of that method
    locals,        \* local variables of that method that outlive a request
    tries,         \* calls of the backoff-wrapped function made so far
    giveups,       \* invocations of the on_giveup callback
    sent,          \* the HTTP requests issued by the method, in order
    response,      \* the response of the last completed request
    result,        \* what the method returned or raised
    url,           \* _extract_olid_from_url: argument url
    url_type,      \* _extract_olid_from_url: argument url_type
    olid,          \* _extract_olid_from_url: returned value
    xpc            \* _extract_olid_from_url: "call" before, "done" after

clientVars == <<base_url, cookies, username, op, pc, args, locals, tries,
                giveups, sent, response, result>>
extractVars == <<url, url_type, olid, xpc>>
vars == <<base_url, cookies, username, op, pc, args, locals, tries,
          giveups, sent, response, result, url, url_type, olid, xpc>>

---------------------------------------------------------------------------
(* Bounds of the model. *)

MaxUrlLen == 7
MaxCandidates == 2

---------------------------------------------------------------------------
(* Python values. *)

None == [t |-> "None"]
Str(s) == [t |-> "str", v |-> s]

Digits == {"0", "1", "2", "3", "4", "5", "6", "7", "8", "9"}
LowerSeq == <<"a", "b", "c", "d", "e", "f", "g", "h", "i", "j", "k", "l", "m",
              "n", "o", "p", "q", "r", "s", "t", "u", "v", "w", "x", "y", "z">>
UpperSeq == <<"A", "B", "C", "D", "E", "F", "G", "H", "I", "J", "K", "L", "M",
              "N", "O", "P", "Q", "R", "S", "T", "U", "V", "W", "X", "Y", "Z">>
LowerLetters == {LowerSeq[i] : i \in 1..Len(LowerSeq)}
UpperLetters == {UpperSeq[i] : i \in 1..Len(UpperSeq)}
Whitespace == {" ", "\t", "\n", "\r"}

(* The character class [0-9a-zA-Z] of ol_url_pattern. *)
OlidChars == Digits \cup LowerLetters \cup UpperLetters

IsOlidChar(c) == c \in OlidChars

---------------------------------------------------------------------------
(* _extract_olid_from_url: re.search(r'[/]%s[/]([0-9a-zA-Z]+)' % url_type, *)
(* url).group(1), None when re.search finds nothing.                       *)

(* The literal part of the pattern: '/', the type label, '/'. *)
PatternPrefix(t) == <<"/">> \o t \o <<"/">>

(* The pattern matches at position i: the literal part, then one or more   *)
(* characters of the class.                                                *)
MatchesAt(u, t, i) ==
    LET p == PatternPrefix(t) IN
    /\ i + Len(p) <= Len(u)
    /\ SubSeq(u, i, i + Len(p) - 1) = p
    /\ IsOlidChar(u[i + Len(p)])

(* The greedy + : the last index of the run of class characters from j. *)
RECURSIVE RunEnd(_, _)
RunEnd(u, j) ==
    IF j + 1 <= Len(u) /\ IsOlidChar(u[j + 1]) THEN RunEnd(u, j + 1) ELSE j

(* re.search tries the start positions from the left. *)
RECURSIVE SearchFrom(_, _, _)
SearchFrom(u, t, i) ==
    IF i > Len(u) THEN 0
    ELSE IF MatchesAt(u, t, i) THEN i
    ELSE SearchFrom(u, t, i + 1)

ExtractFirstChar(u, t) ==
    LET i == SearchFrom(u, t, 1) IN
    IF i = 0 THEN None
    ELSE LET s == i + Len(PatternPrefix(t)) IN Str(SubSeq(u, s, s))

extract_olid_from_url(u, t) ==
    LET i == SearchFrom(u, t, 1) IN
    IF i = 0 THEN None
    ELSE LET s == i + Len(PatternPrefix(t)) IN Str(SubSeq(u, s, RunEnd(u, s)))


---------------------------------------------------------------------------
(* What a method call ends with, and what travels over the wire. *)

NoResult == [kind |-> "none"]
Return(v) == [kind |-> "return", val |-> v]
Raise(e) == [kind |-> "raise", exc |-> e]

NoResponse == [t |-> "NoResponse"]
NonJSON == [t |-> "NonJSON"]
Json(v) == [t |-> "json", v |-> v]

(* A request as it leaves the client. session: issued with                 *)
(* self.session.get/post rather than the module-level requests.get;        *)
(* cookie: the session's cookie travels with it; outcome: "error" when the *)
(* transport raised a RequestException, "response" when it answered.       *)
Request(method, path, viaSession, outcome) ==
    [method |-> method, base |-> base_url, path |-> path,
     session |-> viaSession, cookie |-> viaSession /\ cookies,
     outcome |-> outcome]

---------------------------------------------------------------------------
(* BACKOFF_KWARGS and @backoff.on_exception(on_giveup=err, ...): the       *)
(* wrapped function is called again after a RequestException until the     *)
(* number of calls reaches max_tries; then err is invoked and the          *)
(* exception is raised again.                                              *)

max_tries == 5

GiveUpOneLate(t) == t = max_tries + 1

GiveUp(t) == t = max_tries

(* One call of the wrapped function that ends in a RequestException. *)
TransportError(method, path, viaSession) ==
    /\ tries' = tries + 1
    /\ sent' = Append(sent, Request(method, path, viaSession, "error"))
    /\ IF GiveUp(tries + 1)
       THEN /\ giveups' = giveups + 1
            /\ pc' = "done"
            /\ result' = Raise("RequestException")
       ELSE UNCHANGED <<giveups, pc, result>>
    /\ UNCHANGED <<base_url, cookies, username, op, args, locals, response>>
    /\ UNCHANGED extractVars

(* One call of the wrapped function that returns a response. *)
Answered(method, path, viaSession, resp) ==
    /\ sent' = Append(sent, Request(method, path, viaSession, "response"))
    /\ response' = resp
    /\ UNCHANGED <<base_url, username, op, args, giveups>>
    /\ UNCHANGED extractVars

(* Entry of a public method. *)
Enter(name, a) ==
    /\ op = "idle"
    /\ op' = name
    /\ args' = a
    /\ tries' = 0
    /\ giveups' = 0
    /\ sent' = <<>>
    /\ response' = NoResponse
    /\ UNCHANGED <<base_url, cookies, username>>
    /\ UNCHANGED extractVars

---------------------------------------------------------------------------
(* __init__ *)

RECURSIVE rstrip_slash(_)
rstrip_slash(s) ==
    IF s # <<>> /\ s[Len(s)] = "/" THEN rstrip_slash(SubSeq(s, 1, Len(s) - 1))
    ELSE s

(* Config().get_config()['openlibrary']['url'] *)
ConfigUrls == {<<"o", "l">>, <<"o", "l", "/">>, <<"o", "l", "/", "/">>}

(* The base_url argument; <<>> stands for the falsy values None and ''. *)
BaseUrlArgs == {<<>>, <<"h">>, <<"h", "/">>}

(* The credentials argument or ol_config.get('credentials'). *)
Credentials == {None, [t |-> "Credentials", username |-> "u", password |-> "p"]}

init_base_url(arg, config_url) ==
    IF arg # <<>> THEN arg ELSE rstrip_slash(config_url)

---------------------------------------------------------------------------
(* login *)

MissingCookieNever(headers) == FALSE

MissingCookie(headers) == "Set-Cookie" \notin headers

LoginHeaders == {{}, {"Set-Cookie"}, {"Set-Cookie", "Content-Type"}}

login ==
    /\ \E c \in Credentials \ {None} :
         Enter("login", [credentials |-> c, constructing |-> FALSE])
    /\ pc' = "_login"
    /\ UNCHANGED <<locals, result>>

_login ==
    /\ op = "login" /\ pc = "_login"
    /\ \/ TransportError("POST", "/account/login", TRUE)
       \/ \E headers \in LoginHeaders :
            /\ Answered("POST", "/account/login", TRUE, [t |-> "Response", headers |-> headers])
            /\ tries' = tries + 1
            /\ cookies' = (cookies \/ "Set-Cookie" \in headers)
            /\ pc' = "done"
            /\ result' = IF MissingCookie(headers)
                         THEN Raise("Exception: No cookie set")
                         ELSE Return(None)
            /\ UNCHANGED locals

(* The call has returned or raised: the client is ready for the next one.  *)
(* A login that raises inside __init__ leaves no client behind.            *)
Finish ==
    /\ pc = "done"
    /\ ~(op = "login" /\ args.constructing /\ result.kind = "raise")
    /\ op' = "idle" /\ pc' = "idle"
    /\ args' = <<>> /\ locals' = <<>>
    /\ tries' = 0 /\ giveups' = 0 /\ sent' = <<>>
    /\ response' = NoResponse /\ result' = NoResult
    /\ UNCHANGED <<base_url, cookies, username>>
    /\ UNCHANGED extractVars


---------------------------------------------------------------------------
(* Text operations of Python used by the client. *)

LowerChar(c) ==
    IF c \in UpperLetters
    THEN LowerSeq[CHOOSE i \in 1..Len(UpperSeq) : UpperSeq[i] = c]
    ELSE c

(* unicode.lower() *)
lower(s) == [i \in 1..Len(s) |-> LowerChar(s[i])]

RECURSIVE lstrip(_)
lstrip(s) == IF s # <<>> /\ s[1] \in Whitespace THEN lstrip(Tail(s)) ELSE s

RECURSIVE rstrip(_)
rstrip(s) ==
    IF s # <<>> /\ s[Len(s)] \in Whitespace THEN rstrip(SubSeq(s, 1, Len(s) - 1))
    ELSE s

(* unicode.strip() *)
strip(s) == lstrip(rstrip(s))

(* s.split('/')[-1]: what follows the last '/', the whole of s without one. *)
RECURSIVE split_last(_)
split_last(s) ==
    IF s = <<>> THEN <<>>
    ELSE IF s[Len(s)] = "/" THEN <<>>
    ELSE Append(split_last(SubSeq(s, 1, Len(s) - 1)), s[Len(s)])

(* Python truth of an optional text value. *)
Truthy(x) == x # None /\ x.v # <<>>

---------------------------------------------------------------------------
(* get_matching_authors_by_name, get_matching_authors_olid *)

AuthorsPrefix == <<"/", "a", "u", "t", "h", "o", "r", "s", "/">>
OL1A == <<"O", "L", "1", "A">>
OL2A == <<"O", "L", "2", "A">>
OL3A == <<"O", "L", "3", "A">>

(* The records of the autocomplete API. *)
AuthorRecords ==
    { [name |-> <<"a", "l", " ">>, key |-> AuthorsPrefix \o OL1A],
      [name |-> <<"A", "L">>, key |-> AuthorsPrefix \o OL2A],
      [name |-> <<"B", "o">>, key |-> AuthorsPrefix \o OL3A] }

CandidateLists == UNION {[1..n -> AuthorRecords] : n \in 0..MaxCandidates}

(* What the server may answer to the autocomplete GET. *)
AuthorBodies == {NonJSON} \cup {Json(l) : l \in CandidateLists}

(* The names the methods are called with. *)
QueryNames == {<<>>, <<"A", "l">>, <<" ", "b", "o">>}

(* The for loop of get_matching_authors_olid from the i-th author on. *)
RECURSIVE first_exact_match(_, _, _)
first_exact_match(_name, authors, i) ==
    IF i > Len(authors) THEN None
    ELSE IF _name = strip(lower(authors[i].name))
         THEN Str(split_last(authors[i].key))
         ELSE first_exact_match(_name, authors, i + 1)

(* get_matching_authors_olid once the list of authors is there. *)
matching_authors_olid(name, authors) ==
    first_exact_match(strip(lower(name)), authors, 1)

get_matching_authors_by_name ==
    /\ \E name \in QueryNames, limit \in {1, 2} :
         /\ Enter("get_matching_authors_by_name", [name |-> name, limit |-> limit])
         /\ IF name # <<>>
            THEN pc' = "_get_matching_authors_by_name" /\ result' = NoResult
            ELSE pc' = "done" /\ result' = Return([t |-> "list", v |-> <<>>])
    /\ UNCHANGED locals

get_matching_authors_olid ==
    /\ \E name \in QueryNames :
         /\ Enter("get_matching_authors_olid", [name |-> name, limit |-> 1])
         /\ IF name # <<>>
            THEN pc' = "_get_matching_authors_by_name" /\ result' = NoResult
            ELSE pc' = "done" /\ result' = Return(matching_authors_olid(name, <<>>))
    /\ UNCHANGED locals


---------------------------------------------------------------------------
(* create_book, _create_book *)

VALID_IDS == <<"isbn_10", "isbn_13", "lccn">>

IdValue(kind) ==
    CASE kind = "isbn_10" -> "1234567890"
      [] kind = "isbn_13" -> "9781234567897"
      [] OTHER -> "2001012345"

(* book.identifiers: a mapping from some of the kinds to lists of values;  *)
(* Results.Document gives every Book an 'lccn' entry, an empty list when   *)
(* the search document has none.                                           *)
IdentifierKinds == {"isbn_10", "isbn_13", "lccn"}

IdentifierMaps ==
    UNION { [S -> {0, 1}] : S \in SUBSET IdentifierKinds }

Identifiers(m) ==
    [k \in DOMAIN m |-> IF m[k] = 0 THEN <<>> ELSE <<IdValue(k)>>]

(* The constructors of olclient.book. *)
Author(name, author_olid) == [t |-> "Author", name |-> name, olid |-> author_olid]
Book(fields) == [t |-> "Book", fields |-> fields]

PrimaryAuthors == {None} \cup {Author(n, None) : n \in QueryNames}

Books ==
    { [title |-> "T", publisher |-> "P", publish_date |-> "2000",
       identifiers |-> Identifiers(m), primary_author |-> a] :
         m \in IdentifierMaps, a \in PrimaryAuthors }

(* The loop of get_primary_identifier from the i-th valid key on: the      *)
(* first key the mapping holds, with the first value of its list.          *)
RECURSIVE scan_valid_ids(_, _)
scan_valid_ids(identifiers, i) ==
    IF i > Len(VALID_IDS) THEN [id_name |-> None, id_value |-> None]
    ELSE IF VALID_IDS[i] \in DOMAIN identifiers
         THEN IF identifiers[VALID_IDS[i]] = <<>>
              THEN Raise("IndexError")
              ELSE [id_name |-> Str(VALID_IDS[i]),
                    id_value |-> Str(identifiers[VALID_IDS[i]][1])]
         ELSE scan_valid_ids(identifiers, i + 1)

get_primary_identifier(book) ==
    LET found == scan_valid_ids(book.identifiers, 1) IN
    IF "kind" \in DOMAIN found THEN found
    ELSE IF ~(found.id_name # None /\ found.id_value # None /\ found.id_value.v # "")
         THEN Raise("ValueError: ISBN10/13 or LCCN required")
         ELSE [kind |-> "return", id_name |-> found.id_name.v,
               id_value |-> found.id_value.v]

NewAuthorKey == <<"_", "_", "n", "e", "w", "_", "_">>

(* author_key of create_book *)
author_key_of(author_olid) ==
    IF Truthy(author_olid) THEN AuthorsPrefix \o author_olid.v ELSE NewAuthorKey

DebugNeverReturnsData(debug) == FALSE

(* `if debug: return data` *)
DebugReturnsData(debug) == debug

(* create_book from the call of get_matching_authors_olid's loop on, and   *)
(* _create_book up to its request: what to do next.                        *)
create_book_tail(book, id_name, id_value, author_name, authors, debug) ==
    LET author_olid == matching_authors_olid(author_name, authors)
        data == [title |-> book.title,
                 author_name |-> author_name,
                 author_key |-> author_key_of(author_olid),
                 publish_date |-> book.publish_date,
                 publisher |-> book.publisher,
                 id_name |-> id_name,
                 id_value |-> id_value,
                 _save |-> ""]
    IN  IF \A i \in 1..Len(VALID_IDS) : VALID_IDS[i] # id_name
        THEN [next |-> "done", result |-> Raise("ValueError: Invalid id_name"), data |-> data]
        ELSE IF DebugReturnsData(debug)
        THEN [next |-> "done", result |-> Return([t |-> "dict", v |-> data]), data |-> data]
        ELSE [next |-> "_create_book_post", result |-> NoResult, data |-> data]

create_book ==
    \E book \in Books, debug \in BOOLEAN :
      /\ Enter("create_book", [book |-> book, debug |-> debug])
      /\ LET id == get_primary_identifier(book) IN
         IF id.kind = "raise"
         THEN pc' = "done" /\ result' = id /\ locals' = <<>>
         ELSE LET primary_author == book.primary_author
                  author_name == IF primary_author # None THEN primary_author.name ELSE <<>>
              IN  IF author_name # <<>>
                  THEN /\ pc' = "_get_matching_authors_by_name"
                       /\ result' = NoResult
                       /\ locals' = [id_name |-> id.id_name, id_value |-> id.id_value,
                                     author_name |-> author_name]
                  ELSE LET t == create_book_tail(book, id.id_name, id.id_value,
                                                 author_name, <<>>, debug)
                       IN  /\ pc' = t.next
                           /\ result' = t.result
                           /\ locals' = [data |-> t.data]

(* The wrapped GET of get_matching_authors_by_name, and what its three     *)
(* callers do with the answer.                                             *)
_get_matching_authors_by_name ==
    /\ pc = "_get_matching_authors_by_name"
    /\ \/ TransportError("GET", "/authors/_autocomplete", TRUE)
       \/ \E body \in AuthorBodies :
            /\ Answered("GET", "/authors/_autocomplete", TRUE,
                        [t |-> "Response", body |-> body])
            /\ UNCHANGED cookies
            /\ IF body = NonJSON
               THEN /\ pc' = "done" /\ result' = Raise("ValueError: No JSON object could be decoded")
                    /\ tries' = tries + 1
                    /\ UNCHANGED locals
               ELSE CASE op = "get_matching_authors_by_name" ->
                           /\ pc' = "done"
                           /\ result' = Return([t |-> "list", v |-> body.v])
                           /\ tries' = tries + 1
                           /\ UNCHANGED locals
                      [] op = "get_matching_authors_olid" ->
                           /\ pc' = "done"
                           /\ result' = Return(matching_authors_olid(args.name, body.v))
                           /\ tries' = tries + 1
                           /\ UNCHANGED locals
                      [] OTHER ->
                           LET t == create_book_tail(args.book, locals.id_name,
                                        locals.id_value, locals.author_name,
                                        body.v, args.debug)
                           IN  /\ pc' = t.next
                               /\ result' = t.result
                               /\ tries' = IF t.next = "done" THEN tries + 1 ELSE 0
                               /\ locals' = [data |-> t.data]

BooksPrefix == <<"/", "b", "o", "o", "k", "s", "/">>
OL1M == <<"O", "L", "1", "M">>

(* response.url after the redirect of POST /books/add. *)
CreatedUrls ==
    { <<"o", "l">> \o BooksPrefix \o OL1M \o <<"/", "T">>,
      <<"o", "l">> \o BooksPrefix \o <<"a", "d", "d">>,
      <<"o", "l", "/", "a", "c", "c", "o", "u", "n", "t">> }

_create_book_post ==
    /\ op = "create_book" /\ pc = "_create_book_post"
    /\ \/ TransportError("POST", "/books/add", TRUE)
       \/ \E rurl \in CreatedUrls :
            /\ Answered("POST", "/books/add", TRUE, [t |-> "Response", url |-> rurl])
            /\ tries' = tries + 1
            /\ pc' = "done"
            /\ result' = Return(extract_olid_from_url(rurl, <<"b", "o", "o", "k", "s">>))
            /\ UNCHANGED <<cookies, locals>>


---------------------------------------------------------------------------
(* JSON objects are functions from their keys; a value that may be absent  *)
(* or null is tagged: List(l) for a list, Str(s) for a text.               *)

EmptyDict == <<>>
List(l) == [t |-> "list", v |-> l]
Opt(d, k) == IF k \in DOMAIN d THEN d[k] ELSE None
OrEmpty(x) == IF x = None THEN <<>> ELSE x.v
Put(d, k, x) == [f \in DOMAIN d \cup {k} |-> IF f = k THEN x ELSE d[f]]
Pop(d, k) == [f \in DOMAIN d \ {k} |-> d[f]]

BooksType == <<"b", "o", "o", "k", "s">>
AuthorsType == <<"a", "u", "t", "h", "o", "r", "s">>
WorksType == <<"w", "o", "r", "k", "s">>

---------------------------------------------------------------------------
(* get_book_by_olid *)

OlidArgs == {OL1M}

DetailBodies ==
    { NonJSON,
      Json([key |-> BooksPrefix \o OL1M, title |-> "T", isbn_10 |-> <<"1234567890">>]) }

get_book_by_olid ==
    /\ \E o \in OlidArgs : Enter("get_book_by_olid", [olid |-> o])
    /\ pc' = "_get_book_by_olid"
    /\ UNCHANGED <<locals, result>>

_get_book_by_olid ==
    /\ pc = "_get_book_by_olid"
    /\ \/ TransportError("GET", "/books/<olid>.json", TRUE)
       \/ \E body \in DetailBodies :
            /\ Answered("GET", "/books/<olid>.json", TRUE, [t |-> "Response", body |-> body])
            /\ tries' = tries + 1
            /\ pc' = "done"
            /\ result' = IF body = NonJSON THEN Raise("ValueError: No JSON object could be decoded")
                         ELSE Return(Book(body.v))
            /\ UNCHANGED <<cookies, locals>>

---------------------------------------------------------------------------
(* Results, Results.Document, get_book_by_metadata *)

WorksPrefix == <<"/", "w", "o", "r", "k", "s", "/">>
OL1W == <<"O", "L", "1", "W">>

DocFull ==
    [key |-> WorksPrefix \o OL1W, title |-> "T",
     author_name |-> List(<<"A", "B">>), author_key |-> List(<<"K1">>),
     publisher |-> List(<<"P1", "P2">>), first_publish_year |-> [t |-> "int", v |-> 1999],
     lccn |-> List(<<"2001012345">>)]
DocBare == [key |-> WorksPrefix \o OL1W]
DocNoKey == [title |-> "T"]

(* zip(a, b) *)
Zip(a, b) ==
    LET n == IF Len(a) < Len(b) THEN Len(a) ELSE Len(b)
    IN  [i \in 1..n |-> <<a[i], b[i]>>]

(* Document.__init__ for a doc that has its required key. *)
Document(doc) ==
    LET work_olid == extract_olid_from_url(doc.key, WorksType)
        pairs == Zip(OrEmpty(Opt(doc, "author_name")), OrEmpty(Opt(doc, "author_key")))
    IN  [title |-> IF "title" \in DOMAIN doc THEN doc.title ELSE "",
         subtitle |-> Opt(doc, "subtitle"),
         subjects |-> Opt(doc, "subject"),
         authors |-> [i \in 1..Len(pairs) |-> Author(pairs[i][1], pairs[i][2])],
         publishers |-> Opt(doc, "publisher"),
         publish_dates |-> Opt(doc, "publish_date"),
         publish_places |-> Opt(doc, "publish_place"),
         first_publish_year |-> Opt(doc, "first_publish_year"),
         edition_olids |-> Opt(doc, "edition_key"),
         language |-> IF "language" \in DOMAIN doc THEN doc.language ELSE "",
         identifiers |-> [olid |-> <<work_olid>>,
                          isbns |-> OrEmpty(Opt(doc, "isbns")),
                          oclc |-> OrEmpty(Opt(doc, "oclc")),
                          lccn |-> OrEmpty(Opt(doc, "lccn")),
                          goodreads |-> OrEmpty(Opt(doc, "id_goodreads")),
                          librarything |-> OrEmpty(Opt(doc, "id_librarything"))]]

(* Document.to_book *)
to_book(d) ==
    LET publisher == IF OrEmpty(d.publishers) # <<>> THEN d.publishers.v[1] ELSE ""
    IN  Book([title |-> d.title, subtitle |-> d.subtitle,
              identifiers |-> d.identifiers, authors |-> d.authors,
              publisher |-> publisher, publish_date |-> d.first_publish_year])

SearchBodies ==
    { NonJSON,
      Json([start |-> 0, num_found |-> 0, docs |-> <<>>]),
      Json([start |-> 0, num_found |-> 1, docs |-> <<DocFull>>]),
      Json([start |-> 0, num_found |-> 2, docs |-> <<DocBare, DocFull>>]),
      Json([start |-> 0, num_found |-> 1]),
      Json([start |-> 0, num_found |-> 1, docs |-> <<>>]),
      Json([start |-> 0, num_found |-> 1, docs |-> <<DocNoKey>>]),
      Json(EmptyDict) }

(* get_book_by_metadata from response.json() on. *)
book_by_metadata(body) ==
    IF body = NonJSON THEN Return(None)
    ELSE LET json == body.v
             docs == Opt(json, "docs")
             num_found == IF "num_found" \in DOMAIN json THEN json.num_found ELSE 0
         IN  IF "docs" \notin DOMAIN json THEN Raise("TypeError")
             ELSE IF \E i \in 1..Len(docs) : "key" \notin DOMAIN docs[i]
                  THEN Raise("TypeError")
             ELSE IF num_found # 0
                  THEN IF docs = <<>> THEN Raise("AttributeError")
                       ELSE Return(to_book(Document(docs[1])))
             ELSE Return(None)

get_book_by_metadata ==
    /\ \E title \in {"T"}, author \in {None, Str("A")} :
         Enter("get_book_by_metadata", [title |-> title, author |-> author])
    /\ pc' = "_get_book_by_metadata"
    /\ UNCHANGED <<locals, result>>

_get_book_by_metadata ==
    /\ pc = "_get_book_by_metadata"
    /\ \/ TransportError("GET", "/search.json", FALSE)
       \/ \E body \in SearchBodies :
            /\ Answered("GET", "/search.json", FALSE, [t |-> "Response", body |-> body])
            /\ tries' = tries + 1
            /\ pc' = "done"
            /\ result' = book_by_metadata(body)
            /\ UNCHANGED <<cookies, locals>>


---------------------------------------------------------------------------
(* get_book_by_isbn *)

ISBNs == {"123", "456"}

(* u'ISBN:%s' % isbn *)
isbn_key(isbn) == <<"ISBN:", isbn>>

OL2A_url == AuthorsPrefix \o OL2A

(* The payload of the example: key, authors and title only. *)
EditionPlain ==
    [key |-> BooksPrefix \o OL1M,
     authors |-> <<[name |-> "A", url |-> OL2A_url]>>,
     title |-> "X"]
EditionWithIdentifiers ==
    [key |-> BooksPrefix \o OL1M,
     authors |-> <<[name |-> "A", url |-> OL2A_url], [name |-> "B", url |-> <<"x">>]>>,
     title |-> "X",
     identifiers |-> [isbn_10 |-> <<"123">>]]
EditionNoAuthors ==
    [key |-> BooksPrefix \o OL1M, title |-> "X", identifiers |-> EmptyDict]
EditionNoKey ==
    [title |-> "X", identifiers |-> EmptyDict]

Editions == {EditionPlain, EditionWithIdentifiers, EditionNoAuthors, EditionNoKey}

DataBodies ==
    {NonJSON, Json(EmptyDict)}
      \cup {Json([k \in {isbn_key(i)} |-> e]) : i \in ISBNs, e \in Editions}

(* The inbound mapping of get_book_by_isbn for an edition that has the     *)
(* keys the code subscripts.                                               *)
marshal_edition(edition) ==
    LET book_olid == extract_olid_from_url(edition.key, BooksType)
        identifiers == Put(edition.identifiers, "olid", <<book_olid>>)
        raw == IF "authors" \in DOMAIN edition THEN edition.authors ELSE <<>>
        authors == [i \in 1..Len(raw) |->
                      Author(raw[i].name, extract_olid_from_url(raw[i].url, AuthorsType))]
    IN  Book(Put(Put(Pop(edition, "key"), "identifiers", identifiers),
                 "authors", authors))

(* get_book_by_isbn from response.json() on. *)
book_by_isbn(isbn, body) ==
    IF body = NonJSON THEN Return(None)
    ELSE IF isbn_key(isbn) \notin DOMAIN body.v THEN Return(None)
    ELSE LET edition == body.v[isbn_key(isbn)] IN
         IF "key" \notin DOMAIN edition THEN Raise("KeyError")
         ELSE IF "identifiers" \notin DOMAIN edition THEN Raise("KeyError")
         ELSE Return(marshal_edition(edition))

get_book_by_isbn ==
    /\ \E isbn \in ISBNs : Enter("get_book_by_isbn", [isbn |-> isbn])
    /\ pc' = "_get_book_by_isbn"
    /\ UNCHANGED <<locals, result>>

_get_book_by_isbn ==
    /\ pc = "_get_book_by_isbn"
    /\ \/ TransportError("GET", "/api/books?jscmd=data", FALSE)
       \/ \E body \in DataBodies :
            /\ Answered("GET", "/api/books?jscmd=data", FALSE,
                        [t |-> "Response", body |-> body])
            /\ tries' = tries + 1
            /\ pc' = "done"
            /\ result' = book_by_isbn(args.isbn, body)
            /\ UNCHANGED <<cookies, locals>>

---------------------------------------------------------------------------
(* get_olid_by_isbn *)

InfoBodies ==
    {NonJSON, Json(EmptyDict)}
      \cup {Json([k \in {isbn_key(i)} |-> e]) :
              i \in ISBNs,
              e \in {EmptyDict,
                     [info_url |-> <<"o", "l">> \o BooksPrefix \o OL1M \o <<"/", "T">>],
                     [info_url |-> <<"o", "l">> \o WorksPrefix \o OL1W]}}

(* get_olid_by_isbn from response.json() on. *)
olid_by_isbn(isbn, body) ==
    IF body = NonJSON THEN Return(None)
    ELSE IF isbn_key(isbn) \notin DOMAIN body.v THEN Return(None)
    ELSE LET entry == body.v[isbn_key(isbn)]
             book_url == IF "info_url" \in DOMAIN entry THEN entry.info_url ELSE <<>>
         IN  Return(extract_olid_from_url(book_url, BooksType))

get_olid_by_isbn ==
    /\ \E isbn \in ISBNs : Enter("get_olid_by_isbn", [isbn |-> isbn])
    /\ pc' = "_get_olid_by_isbn"
    /\ UNCHANGED <<locals, result>>

_get_olid_by_isbn ==
    /\ pc = "_get_olid_by_isbn"
    /\ \/ TransportError("GET", "/api/books", FALSE)
       \/ \E body \in InfoBodies :
            /\ Answered("GET", "/api/books", FALSE, [t |-> "Response", body |-> body])
            /\ tries' = tries + 1
            /\ pc' = "done"
            /\ result' = olid_by_isbn(args.isbn, body)
            /\ UNCHANGED <<cookies, locals>>

---------------------------------------------------------------------------
(* The client: constructed, then called method after method. *)

Init ==
    /\ \E arg \in BaseUrlArgs, config_url \in ConfigUrls, credentials \in Credentials :
         /\ base_url = init_base_url(arg, config_url)
         /\ username = IF credentials # None THEN Str(credentials.username) ELSE None
         /\ IF credentials # None
            THEN /\ op = "login" /\ pc = "_login"
                 /\ args = [credentials |-> credentials, constructing |-> TRUE]
            ELSE /\ op = "idle" /\ pc = "idle"
                 /\ args = <<>>
    /\ cookies = FALSE
    /\ locals = <<>>
    /\ tries = 0 /\ giveups = 0 /\ sent = <<>>
    /\ response = NoResponse /\ result = NoResult
    /\ url = <<>> /\ url_type = <<>> /\ olid = None /\ xpc = "off"

Next ==
    \/ login
    \/ _login
    \/ get_matching_authors_by_name
    \/ get_matching_authors_olid
    \/ create_book
    \/ _get_matching_authors_by_name
    \/ _create_book_post
    \/ get_book_by_olid
    \/ _get_book_by_olid
    \/ get_book_by_metadata
    \/ _get_book_by_metadata
    \/ get_book_by_isbn
    \/ _get_book_by_isbn
    \/ get_olid_by_isbn
    \/ _get_olid_by_isbn
    \/ Finish

Spec == Init /\ [][Next]_vars

---------------------------------------------------------------------------
(* _extract_olid_from_url on its own: every url up to MaxUrlLen characters *)
(* over an alphabet with '/', a lower-case letter, an upper-case letter, a *)
(* digit and a character outside the class; type labels made of letters.   *)

ExtractChars == {"/", "b", "O", "7", "-"}
Urls == UNION {[1..n -> ExtractChars] : n \in 0..MaxUrlLen}
TypeLabels == {<<"b">>, <<"b", "b">>}

InitExtract ==
    /\ url \in Urls /\ url_type \in TypeLabels /\ olid = None /\ xpc = "call"
    /\ base_url = <<"o", "l">> /\ cookies = FALSE /\ username = None
    /\ op = "idle" /\ pc = "idle" /\ args = <<>> /\ locals = <<>>
    /\ tries = 0 /\ giveups = 0 /\ sent = <<>>
    /\ response = NoResponse /\ result = NoResult

_extract_olid_from_url ==
    /\ xpc = "call"
    /\ olid' = extract_olid_from_url(url, url_type)
    /\ xpc' = "done"
    /\ UNCHANGED <<url, url_type>>
    /\ UNCHANGED clientVars

NextExtract == _extract_olid_from_url

SpecExtract == InitExtract /\ [][NextExtract]_vars


---------------------------------------------------------------------------
(* Properties. *)

LastSent == sent[Len(sent)]

(* C1: a wrapped call is made at most 5 times; once a call is answered the *)
(* same request is not sent again and on_giveup has not been invoked; when *)
(* all 5 calls fail on_giveup is invoked exactly once and the              *)
(* RequestException reaches the caller.                                    *)
RetryPolicyBounded ==
    /\ tries <= 5
    /\ \A q \in {sent[i].path : i \in 1..Len(sent)} :
           Cardinality({i \in 1..Len(sent) : sent[i].path = q}) <= 5
    /\ giveups <= 1
    /\ giveups = 1 =>
           /\ pc = "done"
           /\ result = Raise("RequestException")
           /\ Len(sent) >= 5
           /\ \A i \in (Len(sent) - 4)..Len(sent) :
                  sent[i].outcome = "error" /\ sent[i].path = LastSent.path
    /\ result = Raise("RequestException") => giveups = 1
    /\ \A i \in 1..Len(sent) :
           sent[i].outcome = "response" =>
               /\ i < Len(sent) => sent[i + 1].path # sent[i].path
               /\ i = Len(sent) => giveups = 0
    /\ (/\ Len(sent) >= 5
        /\ \A i \in (Len(sent) - 4)..Len(sent) :
               sent[i].outcome = "error" /\ sent[i].path = LastSent.path)
         => giveups = 1

(* Four failures, then the fifth call is answered and the method returns. *)
RetryFifthCallAnswered ==
    /\ tries = 5 /\ giveups = 0 /\ Len(sent) = 5
    /\ \A i \in 1..4 : sent[i].outcome = "error"
    /\ sent[5].outcome = "response"
    /\ result.kind = "return"

(* C7: once the login POST is answered, login is over: that POST is the    *)
(* only answered one and the last one sent, on_giveup has not been         *)
(* invoked, and login raises when the answer has no Set-Cookie header and  *)
(* returns when it has one.                                                *)
LoginRaisesWithoutRetry ==
    (op = "login" /\ response # NoResponse) =>
        /\ pc = "done"
        /\ giveups = 0
        /\ sent # <<>>
        /\ LastSent.outcome = "response"
        /\ \A i \in 1..(Len(sent) - 1) : sent[i].outcome = "error"
        /\ "Set-Cookie" \notin response.headers =>
               result = Raise("Exception: No cookie set")
        /\ "Set-Cookie" \in response.headers => result = Return(None)

(* The first POST is answered without a cookie and login has raised. *)
LoginRaisedAfterOnePost ==
    /\ op = "login" /\ pc = "done"
    /\ response # NoResponse
    /\ "Set-Cookie" \notin response.headers
    /\ Len(sent) = 1
    /\ result.kind = "raise"

(* C8: the value returned is the maximal run of [0-9a-zA-Z] characters     *)
(* right after the leftmost '/<type>/' that is followed by such a          *)
(* character, and None when the url has no such place.                     *)
ExtractReturnsFirstOlid ==
    xpc = "done" =>
        LET p == <<"/">> \o url_type \o <<"/">>
            occ == {i \in 1..Len(url) :
                      /\ i + Len(p) <= Len(url)
                      /\ SubSeq(url, i, i + Len(p) - 1) = p
                      /\ url[i + Len(p)] \in OlidChars}
        IN  IF occ = {} THEN olid = None
            ELSE LET first == CHOOSE i \in occ : \A j \in occ : i <= j
                     s == first + Len(p)
                 IN  /\ olid.t = "str"
                     /\ Len(olid.v) >= 1
                     /\ s + Len(olid.v) - 1 <= Len(url)
                     /\ SubSeq(url, s, s + Len(olid.v) - 1) = olid.v
                     /\ \A k \in 1..Len(olid.v) : olid.v[k] \in OlidChars
                     /\ s + Len(olid.v) <= Len(url) =>
                            url[s + Len(olid.v)] \notin OlidChars

(* An id of both letter cases and a digit has been extracted. *)
ExtractedMixedCaseOlid ==
    /\ xpc = "done"
    /\ olid = Str(<<"b", "O", "7">>)
    /\ url[Len(url)] = "-"


(* The name create_book looks up: the primary author's, '' without one. *)
AuthorNameOf(book) ==
    IF book.primary_author = None THEN <<>> ELSE book.primary_author.name

(* The valid kinds a book's identifiers hold, as indices of VALID_IDS. *)
PresentKinds(book) ==
    {i \in 1..Len(VALID_IDS) : VALID_IDS[i] \in DOMAIN book.identifiers}

FirstPresentKind(book) ==
    VALID_IDS[CHOOSE i \in PresentKinds(book) : \A j \in PresentKinds(book) : i <= j]

(* C3, as claimed: with debug=True create_book issues no request at all. *)
DebugIssuesNoRequest ==
    (op = "create_book" /\ args.debug) => sent = <<>>

(* C3, amended: with debug=True create_book never issues the POST to       *)
(* /books/add; it issues no request at all when the primary author's name  *)
(* is empty, and has issued the author-autocomplete GET before it returns  *)
(* when the name is not empty; what it returns is the assembled payload.   *)
DebugIssuesNoPost ==
    (op = "create_book" /\ args.debug) =>
        /\ \A i \in 1..Len(sent) :
               sent[i].method = "GET" /\ sent[i].path = "/authors/_autocomplete"
        /\ AuthorNameOf(args.book) = <<>> => sent = <<>>
        /\ pc # "_create_book_post"
        /\ (pc = "done" /\ result.kind = "return") =>
               /\ AuthorNameOf(args.book) # <<>> =>
                      sent # <<>> /\ LastSent.outcome = "response"
               /\ result.val.t = "dict"
               /\ DOMAIN result.val.v =
                      {"title", "author_name", "author_key", "publish_date",
                       "publisher", "id_name", "id_value", "_save"}
               /\ result.val.v.title = args.book.title
               /\ result.val.v.author_name = AuthorNameOf(args.book)
               /\ result.val.v.publish_date = args.book.publish_date
               /\ result.val.v.publisher = args.book.publisher
               /\ result.val.v.id_name = FirstPresentKind(args.book)
               /\ result.val.v.id_value =
                      args.book.identifiers[FirstPresentKind(args.book)][1]
               /\ result.val.v._save = ""
               /\ \/ result.val.v.author_key = NewAuthorKey
                  \/ /\ sent # <<>>
                     /\ \E i \in 1..Len(response.body.v) :
                            result.val.v.author_key =
                                AuthorsPrefix \o split_last(response.body.v[i].key)

(* A dry run that looked the author up and returns the payload with the    *)
(* author's key.                                                           *)
DebugReturnedPayloadAfterLookup ==
    /\ op = "create_book" /\ args.debug
    /\ pc = "done" /\ result.kind = "return"
    /\ sent # <<>>
    /\ result.val.v.author_key = AuthorsPrefix \o OL1A

(* C2: get_matching_authors_olid returns an id only when exactly one       *)
(* author of the answer has the normalized name of the query, that         *)
(* author's id, and None when none or several have.                        *)
OlidOnlyForUniqueExactMatch ==
    (/\ op = "get_matching_authors_olid" /\ pc = "done"
     /\ result.kind = "return" /\ response # NoResponse) =>
        LET authors == response.body.v
            m == {i \in 1..Len(authors) :
                    strip(lower(authors[i].name)) = strip(lower(args.name))}
        IN  IF Cardinality(m) = 1
            THEN result.val = Str(split_last(authors[CHOOSE i \in m : TRUE].key))
            ELSE result.val = None

(* C4: create_book raises the ValueError of get_primary_identifier exactly *)
(* when the book holds none of isbn_10, isbn_13, lccn; otherwise the       *)
(* selection raises nothing and picks the first kind held.                 *)
PrimaryIdentifierOrInvalidInput ==
    op = "create_book" =>
        IF PresentKinds(args.book) = {}
        THEN pc = "done" /\ result = Raise("ValueError: ISBN10/13 or LCCN required")
        ELSE /\ ~(/\ result.kind = "raise"
                  /\ result.exc \in {"IndexError",
                                     "ValueError: ISBN10/13 or LCCN required"})
             /\ "data" \in DOMAIN locals =>
                    locals.data.id_name = FirstPresentKind(args.book)

(* C5: an answer that holds the ISBN key, whose payload has key and        *)
(* authors, is returned as a Book with the olid of key among its           *)
(* identifiers, the authors as Authors in order, the rest unchanged.       *)
IsbnPayloadBecomesBook ==
    (/\ op = "get_book_by_isbn" /\ pc = "done"
     /\ response # NoResponse
     /\ response.body # NonJSON
     /\ isbn_key(args.isbn) \in DOMAIN response.body.v
     /\ {"key", "authors"} \subseteq DOMAIN response.body.v[isbn_key(args.isbn)]) =>
        LET edition == response.body.v[isbn_key(args.isbn)] IN
        /\ result.kind = "return"
        /\ result.val.t = "Book"
        /\ result.val.fields.identifiers.olid =
               <<extract_olid_from_url(edition.key, BooksType)>>
        /\ Len(result.val.fields.authors) = Len(edition.authors)
        /\ \A i \in 1..Len(edition.authors) :
               result.val.fields.authors[i] =
                   Author(edition.authors[i].name,
                          extract_olid_from_url(edition.authors[i].url, AuthorsType))
        /\ result.val.fields.title = edition.title

(* C6: once the request of get_book_by_metadata, get_book_by_isbn or       *)
(* get_olid_by_isbn is answered, the method returns, whatever the body.    *)
AnsweredLookupNeverRaises ==
    (/\ op \in {"get_book_by_metadata", "get_book_by_isbn", "get_olid_by_isbn"}
     /\ pc = "done"
     /\ response # NoResponse) =>
        result.kind = "return"

(* C9: the base URL of the client does not end with '/'. *)
BaseUrlHasNoTrailingSlash ==
    base_url = <<>> \/ base_url[Len(base_url)] # "/"

(* C10: once the session holds the login cookie, every request of the      *)
(* other methods is issued through the session and carries the cookie.     *)
RequestsGoThroughSession ==
    (cookies /\ op # "login") =>
        \A i \in 1..Len(sent) : sent[i].session /\ sent[i].cookie

===========================================================================
